---- MODULE Spec2Model ----
(***************************************************************************)
(* Verification model of the resilience layer, the accept-path transition  *)
(* and the AI ingestion pipelines of career-paths-api.                     *)
(*                                                                         *)
(*   SpecBreaker : CircuitBreaker.call under concurrent callers            *)
(*   SpecClient  : with_circuit_breaker(with_retry(f)) as the AI clients   *)
(*                 compose them                                            *)
(*   SpecAccept  : CareerPathService.accept_path on PostgreSQL             *)
(*   SpecIngest  : generate_career_paths / generate_assessment             *)
(***************************************************************************)
EXTENDS Integers, Sequences, FiniteSets, TLC

VARIABLES
    \* ---- SpecBreaker: one CircuitBreaker instance and its callers
    cb,            \* [state, failure_count, last_failure_time] of the breaker
    now,           \* time.time()
    pc,            \* per caller: "idle" or "running" (suspended in await func())
    invocations,   \* number of times the wrapped function was invoked
    consec,        \* history: failed calls since the last successful one
    trial,         \* history: caller whose call moved the breaker to HALF_OPEN
                   \*          and has not returned yet (0: none)
    lastFail,      \* history: time of the most recent failed call
    ev,            \* history: the most recent step of CircuitBreaker.call
    \* ---- SpecClient: the decorated _call_production_api of each AI client
    breakers,      \* the breaker created by each with_circuit_breaker(...)
    rcall,         \* the logical call in flight: retry_with_backoff's locals
    ncalls,        \* logical calls made so far
    cev,           \* history: how the most recent logical call ended
    \* ---- SpecAccept: the career_paths table and the accept requests
    committed,     \* committed status of each career_paths row ("absent": no row)
    owner,         \* committed user_id of each career_paths row
    txn,           \* per request: its position, arguments and open transaction
    aev,           \* history: the most recent commit on career_paths
    \* ---- SpecIngest: the AI ingestors
    audit,         \* committed ai_calls_log row of each request
    rows,          \* committed rows each request created, per table
    ing,           \* per request: its position, its session and its result
    \* ---- SpecComplete, SpecScores: the domain functions of evaluations
    evals,         \* the evaluations handed to the functions
    verdict,       \* last result of is_cycle_complete_for_user
    aggregated,    \* last result of aggregate_competency_scores
    \* ---- SpecAggregate: process_evaluation on one (user, cycle) pair
    etab,          \* committed evaluations of the pair, in creation order
    stab,          \* the user_skill_scores rows of the pair, committed or not
    run,           \* per request: its position and its locals
    nstart,        \* requests started so far
    gev,           \* history: the most recent commit of process_evaluation
    \* ---- SpecCycle: one row of evaluation_cycles
    cycle,         \* the committed row ("absent": no row)
    cyev           \* history: the most recent create_cycle or update_cycle

bvars == <<cb, pc, invocations, consec, trial, lastFail, ev>>
cvars == <<breakers, rcall, ncalls, cev>>
avars == <<committed, owner, txn, aev>>
ivars == <<audit, rows, ing>>
evars == <<evals, verdict, aggregated>>
gvars == <<etab, stab, run, nstart, gev>>
yvars == <<cycle, cyev>>

vars == <<now, bvars, cvars, avars, ivars, evars, gvars, yvars>>

-----------------------------------------------------------------------------
(* Bounds of the model *)

FailureThreshold == 2       \* failure_threshold given to the breaker
OpenTimeout == 2            \* timeout (seconds) given to the breaker
NumCallers == 2             \* concurrent coroutines calling one breaker
MaxCalls == FailureThreshold + 3    \* admitted calls per behaviour
MaxTime == 2 * OpenTimeout + 1      \* last instant of the clock

Callers == 1 .. NumCallers

-----------------------------------------------------------------------------
(* CircuitBreaker (app/integrations/circuit_breaker.py) *)

None == -1                  \* last_failure_time = None

CLOSED == "CLOSED"
OPEN == "OPEN"
HALF_OPEN == "HALF_OPEN"

\* CircuitBreaker.__init__
NewBreaker ==
    [state |-> CLOSED, failure_count |-> 0, last_failure_time |-> None]

ShouldAttemptReset_strict(b, t) ==
    IF b.last_failure_time = None THEN FALSE
    ELSE t - b.last_failure_time > OpenTimeout

\* CircuitBreaker._should_attempt_reset
ShouldAttemptReset(b, t) ==
    IF b.last_failure_time = None THEN FALSE
    ELSE t - b.last_failure_time >= OpenTimeout

Admit_postpones(b, t) ==
    IF b.state = OPEN
    THEN IF ShouldAttemptReset(b, t)
         THEN [admitted |-> TRUE, cb |-> [b EXCEPT !.state = HALF_OPEN]]
         ELSE [admitted |-> FALSE, cb |-> [b EXCEPT !.last_failure_time = t]]
    ELSE [admitted |-> TRUE, cb |-> b]

\* CircuitBreaker.call, lines 69-78: the part before the await.
\* admitted = FALSE is the raise of the circuit-open ExternalServiceError.
Admit(b, t) ==
    IF b.state = OPEN
    THEN IF ShouldAttemptReset(b, t)
         THEN [admitted |-> TRUE, cb |-> [b EXCEPT !.state = HALF_OPEN]]
         ELSE [admitted |-> FALSE, cb |-> b]
    ELSE [admitted |-> TRUE, cb |-> b]

OnSuccess_closeonly(b) ==
    IF b.state = HALF_OPEN THEN [b EXCEPT !.state = CLOSED] ELSE b

OnSuccess_resets(b) ==
    IF b.state = HALF_OPEN
    THEN [state |-> CLOSED, failure_count |-> 0, last_failure_time |-> None]
    ELSE [b EXCEPT !.failure_count = 0]

OnSuccess_keepcount(b) ==
    IF b.state = HALF_OPEN
    THEN [b EXCEPT !.state = CLOSED, !.last_failure_time = None]
    ELSE b

\* CircuitBreaker.call, lines 83-89: the wrapped function returned.
OnSuccess(b) ==
    IF b.state = HALF_OPEN
    THEN [state |-> CLOSED, failure_count |-> 0, last_failure_time |-> None]
    ELSE b

OnFailure_offbyone(b, t) ==
    LET n == b.failure_count + 1 IN
    [state |-> IF n > FailureThreshold THEN OPEN ELSE b.state,
     failure_count |-> n,
     last_failure_time |-> t]

OnFailure_keeptime(b, t) ==
    LET n == b.failure_count + 1 IN
    [state |-> IF n >= FailureThreshold THEN OPEN ELSE b.state,
     failure_count |-> n,
     last_failure_time |-> IF b.state = HALF_OPEN THEN b.last_failure_time ELSE t]

\* CircuitBreaker.call, lines 91-104: the wrapped function raised.
OnFailure(b, t) ==
    LET n == b.failure_count + 1 IN
    [state |-> IF n >= FailureThreshold THEN OPEN ELSE b.state,
     failure_count |-> n,
     last_failure_time |-> t]

-----------------------------------------------------------------------------
(* Retry (app/integrations/retry.py) and its composition with the breaker  *)
(* in the AI clients                                                       *)

MaxRetries == 2             \* settings.ai_service_max_retries
InitialDelay == 1           \* settings.ai_service_retry_delay
BackoffFactor == 2          \* backoff_factor=2.0 in both clients

\* retry_with_backoff: max_attempts = max_retries + 1
MaxAttempts == MaxRetries + 1

\* The functions decorated with with_circuit_breaker(...)(with_retry(...)(f)):
\* the two AI clients' _call_production_api, and a coroutine function taking
\* no argument.
AIServices == {"ai_career_service", "ai_skills_service"}
Targets == AIServices \cup {"decorated_func"}

\* The positional arguments each is called with: the career client passes
\* self, skills_data, user_profile; the skills client passes self and
\* keywords only.
PositionalArgs(tg) ==
    CASE tg = "ai_career_service" -> <<"self", "skills_data", "user_profile">>
      [] tg = "ai_skills_service" -> <<"self">>
      [] OTHER -> << >>

BindRetryCall_binds(args) == [ok |-> TRUE, exc |-> "none"]

\* with_retry.wrapper: retry_with_backoff(func, max_retries=..., initial_delay=...,
\* backoff_factor=..., *args, **kwargs).  Python binds *args to the parameters
\* that follow func, so any positional argument collides with the keyword
\* max_retries and the call raises TypeError before func is invoked.
BindRetryCall(args) ==
    IF Len(args) >= 1
    THEN [ok |-> FALSE, exc |-> "TypeError"]
    ELSE [ok |-> TRUE, exc |-> "none"]

NextDelay_constant(delay) == delay

\* retry_with_backoff, line 57: delay *= backoff_factor
NextDelay(delay) == delay * BackoffFactor

LastException_first(prev, attempt) == IF prev = 0 THEN attempt ELSE prev

\* retry_with_backoff, line 47: last_exception = e.  An exception is named by
\* the attempt that raised it (0: None).
LastException(prev, attempt) == attempt

RECURSIVE FailTimes(_, _, _)
\* n failures recorded one after the other
FailTimes(b, t, n) == IF n = 0 THEN b ELSE FailTimes(OnFailure(b, t), t, n - 1)

BreakerAfterRaise_perAttempt(b, t, failed) == FailTimes(b, t, failed)

\* The breaker is the outer decorator: the exception retry_with_backoff
\* finally raises (or the TypeError of the binding) reaches
\* CircuitBreaker.call once, whatever the number of failed attempts.
BreakerAfterRaise(b, t, failed) == OnFailure(b, t)

ClientMaxTime == OpenTimeout + InitialDelay * (BackoffFactor ^ MaxRetries)
MaxLogicalCalls == FailureThreshold + 2

NoCall ==
    [target |-> "none", pc |-> "idle", attempt |-> 0, delay |-> 0, calls |-> 0,
     failed |-> 0, sleeps |-> << >>, wake_at |-> 0, last_exception |-> 0,
     pre |-> NewBreaker]

NoEvent ==
    [target |-> "none", outcome |-> "none", exc |-> "none", raised_by |-> 0,
     calls |-> 0, failed |-> 0, sleeps |-> << >>, pre |-> NewBreaker]

\* The client variables at rest.
ClientIdle ==
    /\ breakers = [tg \in Targets |-> NewBreaker]
    /\ rcall = NoCall
    /\ ncalls = 0
    /\ cev = NoEvent

-----------------------------------------------------------------------------
(* The career_paths table (app/db/models/career_path/career_path.py) and   *)
(* the accept requests                                                     *)

MaxPaths == 2               \* career_paths rows that can exist
MaxRequests == 2            \* accept requests per behaviour

PathIds == 1 .. MaxPaths
Requests == 1 .. MaxRequests
Subjects == {"u1", "u2"}

\* A request that has not arrived: no transaction, nothing read or written.
NoTxn ==
    [pc |-> "new", path |-> 0, user |-> "none", hi |-> 0, cand |-> {},
     writes |-> << >>]

NoCommit == [kind |-> "none", req |-> 0, path |-> 0, user |-> "none",
             hi |-> 0, before |-> [p \in PathIds |-> "absent"]]

\* The accept variables at rest: an empty career_paths table.
AcceptIdle ==
    /\ committed = [p \in PathIds |-> "absent"]
    /\ owner = [p \in PathIds |-> "none"]
    /\ txn = [t \in Requests |-> NoTxn]
    /\ aev = NoCommit

-----------------------------------------------------------------------------
(* The ai_calls_log table and the rows an ingestor creates                 *)

MaxIngest == 2              \* ingestor requests per behaviour
MaxGenPaths == 2            \* generated_paths in one AI response
MaxItems == 2               \* assessment items in one AI response

IngestReqs == 1 .. MaxIngest
Variants == {"career_paths", "skills_assessment"}

NoLog == [status |-> "absent", error_message |-> "none"]

ZeroRows == [paths |-> 0, steps |-> 0, actions |-> 0, assessments |-> 0, items |-> 0]

NoIngest ==
    [pc |-> "new", variant |-> "none", exc |-> "none", response |-> << >>,
     persisted |-> 0, log |-> NoLog, pending |-> ZeroRows, raised |-> "none",
     message |-> << >>]

\* The ingestor variables at rest: no audit row, no generated row.
IngestIdle ==
    /\ audit = [r \in IngestReqs |-> NoLog]
    /\ rows = [r \in IngestReqs |-> ZeroRows]
    /\ ing = [r \in IngestReqs |-> NoIngest]

-----------------------------------------------------------------------------
(* Evaluations and the results of the domain functions                     *)

MaxEvals == 4               \* evaluations of one completeness check
MaxScored == 2              \* evaluations of one aggregation
MaxRated == 5               \* evaluations of one aggregation, SpecStats

NoVerdict == [min_peers |-> 0, min_direct_reports |-> 0, complete |-> FALSE,
              reason |-> <<"unchecked">>]

NoAggregate == [raised |-> "uncalled", value |-> << >>]

\* The domain functions have not been applied.
EvalIdle ==
    /\ evals = << >>
    /\ verdict = NoVerdict
    /\ aggregated = NoAggregate

NumRuns == 2                \* concurrent process_evaluation requests
MaxStarts == 2              \* process_evaluation requests in a run of the model
MaxNew == 2                 \* evaluations created after the first three

NoRun == [pc |-> "idle", gen |-> 0, read |-> << >>, snap |-> {}]

NoRunCommit == [kind |-> "none", gen |-> 0, read |-> << >>,
                prev_read |-> << >>, before |-> {}]

\* No process_evaluation request has been made.
AggIdle ==
    /\ etab = << >>
    /\ stab = {}
    /\ run = [r \in 1 .. NumRuns |-> NoRun]
    /\ nstart = 0
    /\ gev = NoRunCommit

MaxDate == 3                \* the dates a cycle can start or end on

NoCycle == [status |-> "absent", start_date |-> 0, end_date |-> 0]

NoCycleEvent == [kind |-> "none", pre |-> NoCycle, data |-> << >>,
                 outcome |-> "none"]

\* No evaluation cycle has been created.
CycleIdle ==
    /\ cycle = NoCycle
    /\ cyev = NoCycleEvent

-----------------------------------------------------------------------------
(* SpecBreaker: concurrent callers of one breaker.  A coroutine runs       *)
(* without interruption between two awaits, so a call is two steps: the    *)
(* entry up to `await func(...)`, and the code after the await.            *)

Min(a, b) == IF a < b THEN a ELSE b

\* The breaker variables at rest.
BreakerIdle ==
    /\ cb = NewBreaker
    /\ pc = [c \in Callers |-> "idle"]
    /\ invocations = 0
    /\ consec = 0
    /\ trial = 0
    /\ lastFail = None
    /\ ev = [kind |-> "init", caller |-> 0, pre |-> NewBreaker, t |-> 0,
             invoked |-> FALSE]

BreakerInit ==
    /\ now = 0
    /\ BreakerIdle
    /\ ClientIdle
    /\ AcceptIdle
    /\ IngestIdle
    /\ EvalIdle
    /\ AggIdle
    /\ CycleIdle

\* A caller enters CircuitBreaker.call: rejected, or admitted and suspended
\* in the wrapped function.
CallEnter(c) ==
    /\ pc[c] = "idle"
    /\ LET r == Admit(cb, now) IN
         /\ r.admitted => invocations < MaxCalls
         /\ cb' = r.cb
         /\ pc' = [pc EXCEPT ![c] = IF r.admitted THEN "running" ELSE "idle"]
         /\ invocations' = IF r.admitted THEN invocations + 1 ELSE invocations
         /\ trial' = IF r.admitted /\ cb.state = OPEN THEN c ELSE trial
         /\ ev' = [kind |-> IF r.admitted THEN "admit" ELSE "reject",
                   caller |-> c, pre |-> cb, t |-> now,
                   invoked |-> r.admitted]
    /\ UNCHANGED <<now, consec, lastFail, cvars, avars, ivars, evars, gvars, yvars>>

\* The wrapped function of a suspended caller returns.
CallSucceed(c) ==
    /\ pc[c] = "running"
    /\ cb' = OnSuccess(cb)
    /\ pc' = [pc EXCEPT ![c] = "idle"]
    /\ consec' = 0
    /\ trial' = IF trial = c THEN 0 ELSE trial
    /\ ev' = [kind |-> "success", caller |-> c, pre |-> cb, t |-> now,
              invoked |-> FALSE]
    /\ UNCHANGED <<now, invocations, lastFail, cvars, avars, ivars, evars, gvars, yvars>>

\* The wrapped function of a suspended caller raises.
CallFail(c) ==
    /\ pc[c] = "running"
    /\ cb' = OnFailure(cb, now)
    /\ pc' = [pc EXCEPT ![c] = "idle"]
    /\ consec' = Min(consec + 1, FailureThreshold)
    /\ trial' = IF trial = c THEN 0 ELSE trial
    /\ lastFail' = now
    /\ ev' = [kind |-> "failure", caller |-> c, pre |-> cb, t |-> now,
              invoked |-> FALSE]
    /\ UNCHANGED <<now, invocations, cvars, avars, ivars, evars, gvars, yvars>>

\* time.time() advances.
Tick ==
    /\ now < MaxTime
    /\ now' = now + 1
    /\ UNCHANGED <<bvars, cvars, avars, ivars, evars, gvars, yvars>>

BreakerNext ==
    \/ \E c \in Callers : CallEnter(c)
    \/ \E c \in Callers : CallSucceed(c)
    \/ \E c \in Callers : CallFail(c)
    \/ Tick

SpecBreaker == BreakerInit /\ [][BreakerNext]_vars

-----------------------------------------------------------------------------
(* Claims about the breaker *)

Elapsed(b, t) == t - b.last_failure_time

\* C1: from a CLOSED breaker with counter 0, once failure_threshold calls
\* have failed consecutively the breaker is OPEN, and a call made before
\* open_timeout has elapsed is rejected without invoking the wrapped function.
C1_OpensAfterThreshold ==
    /\ (ev.kind = "failure" /\ consec >= FailureThreshold) => cb.state = OPEN
    /\ (/\ ev.kind \in {"admit", "reject"}
        /\ ev.pre.state = OPEN
        /\ consec >= FailureThreshold
        /\ Elapsed(ev.pre, ev.t) < OpenTimeout)
       => (ev.kind = "reject" /\ ~ev.invoked /\ pc[ev.caller] = "idle")

C1_Witness ==
    /\ ev.kind = "reject"
    /\ consec >= FailureThreshold
    /\ ev.pre.failure_count = FailureThreshold
    /\ cb.state = OPEN

\* C2: while OPEN, a call arriving less than open_timeout after the most
\* recently recorded failure is rejected and changes nothing; a call arriving
\* at or after the end of the window moves the breaker to HALF_OPEN before
\* the wrapped function is invoked, and invokes it.
C2_OpenWindow ==
    (ev.kind \in {"admit", "reject"} /\ ev.pre.state = OPEN) =>
        /\ ev.pre.last_failure_time # None
        /\ ev.pre.last_failure_time = lastFail
        /\ IF Elapsed(ev.pre, ev.t) < OpenTimeout
           THEN ev.kind = "reject" /\ ~ev.invoked /\ cb = ev.pre
           ELSE /\ ev.kind = "admit"
                /\ ev.invoked
                /\ cb = [ev.pre EXCEPT !.state = HALF_OPEN]
                /\ pc[ev.caller] = "running"

C2_Witness ==
    /\ ev.kind = "admit"
    /\ ev.pre.state = OPEN
    /\ Elapsed(ev.pre, ev.t) = OpenTimeout
    /\ cb.state = HALF_OPEN

C5_SingleTrial ==
    ~(ev.kind = "admit" /\ ev.invoked /\ trial # 0 /\ trial # ev.caller)

C28_StateMatchesCounter ==
    /\ cb.state \in {CLOSED, OPEN, HALF_OPEN}
    /\ cb.state = CLOSED => cb.failure_count < FailureThreshold
    /\ cb.state \in {OPEN, HALF_OPEN} =>
          /\ cb.failure_count >= FailureThreshold
          /\ cb.last_failure_time # None

\* A call admitted while CLOSED fails while another call is the trial of a
\* HALF_OPEN breaker
C28_Witness ==
    /\ ev.kind = "failure"
    /\ ev.pre.state = HALF_OPEN
    /\ trial # 0
    /\ trial # ev.caller
    /\ cb.state = OPEN
    /\ cb.failure_count > FailureThreshold

\* C30: a call rejected because the breaker is OPEN leaves state, failure
\* counter and last-failure time as they were, so the breaker admits a call
\* as soon as open_timeout has passed since the most recent failure,
\* however many calls were rejected meanwhile.
C30_RejectionChangesNothing ==
    /\ ev.kind = "reject" =>
          /\ ev.pre.state = OPEN
          /\ cb = ev.pre
          /\ cb.last_failure_time = lastFail
    /\ (cb.state = OPEN /\ now - lastFail >= OpenTimeout) =>
          Admit(cb, now).admitted

\* A call was rejected and the window ends at its normal time
C30_Witness ==
    /\ ev.kind = "reject"
    /\ ev.t > lastFail
    /\ cb.state = OPEN
    /\ now - lastFail = OpenTimeout
    /\ Admit(cb, now).admitted

-----------------------------------------------------------------------------
(* SpecClient: logical calls of the decorated functions, one at a time *)

ClientInit ==
    /\ now = 0
    /\ ClientIdle
    /\ BreakerIdle
    /\ AcceptIdle
    /\ IngestIdle
    /\ EvalIdle
    /\ AggIdle
    /\ CycleIdle

Ended(tg, outcome, exc, raised_by, calls, failed, sleeps, pre) ==
    [target |-> tg, outcome |-> outcome, exc |-> exc, raised_by |-> raised_by,
     calls |-> calls, failed |-> failed, sleeps |-> sleeps, pre |-> pre]

\* One logical call of a decorated function: the breaker's entry, then
\* with_retry.wrapper, then the first attempt.  No await separates the
\* breaker's entry from the TypeError of the binding.
LogicalCall(tg) ==
    /\ rcall.pc = "idle"
    /\ ncalls < MaxLogicalCalls
    /\ ncalls' = ncalls + 1
    /\ LET b == breakers[tg]
           r == Admit(b, now)
           bound == BindRetryCall(PositionalArgs(tg))
       IN IF ~r.admitted
          THEN /\ breakers' = [breakers EXCEPT ![tg] = r.cb]
               /\ rcall' = NoCall
               /\ cev' = Ended(tg, "rejected", "ExternalServiceError", 0, 0, 0, << >>, b)
          ELSE IF ~bound.ok
          THEN /\ breakers' = [breakers EXCEPT ![tg] = BreakerAfterRaise(r.cb, now, 0)]
               /\ rcall' = NoCall
               /\ cev' = Ended(tg, "raised", bound.exc, 0, 0, 0, << >>, b)
          ELSE /\ breakers' = [breakers EXCEPT ![tg] = r.cb]
               /\ rcall' = [target |-> tg, pc |-> "attempt", attempt |-> 1,
                            delay |-> InitialDelay, calls |-> 1, failed |-> 0,
                            sleeps |-> << >>, wake_at |-> 0,
                            last_exception |-> 0, pre |-> b]
               /\ cev' = cev
    /\ UNCHANGED <<now, bvars, avars, ivars, evars, gvars, yvars>>

\* retry_with_backoff, line 45: the attempt in flight returns.
AttemptReturns ==
    /\ rcall.pc = "attempt"
    /\ breakers' = [breakers EXCEPT ![rcall.target] = OnSuccess(@)]
    /\ cev' = Ended(rcall.target, "returned", "none", 0, rcall.calls, rcall.failed,
                    rcall.sleeps, rcall.pre)
    /\ rcall' = NoCall
    /\ UNCHANGED <<now, ncalls, bvars, avars, ivars, evars, gvars, yvars>>

\* retry_with_backoff, lines 46-62: the attempt in flight raises; sleep and
\* retry, or raise the last exception into CircuitBreaker.call.
AttemptRaises ==
    /\ rcall.pc = "attempt"
    /\ IF rcall.attempt < MaxAttempts
       THEN /\ rcall' = [rcall EXCEPT !.pc = "sleeping",
                                      !.failed = @ + 1,
                                      !.sleeps = Append(@, rcall.delay),
                                      !.wake_at = now + rcall.delay,
                                      !.last_exception = LastException(@, rcall.attempt),
                                      !.delay = NextDelay(@)]
            /\ UNCHANGED <<breakers, cev>>
       ELSE /\ breakers' = [breakers EXCEPT ![rcall.target] =
                               BreakerAfterRaise(@, now, rcall.failed + 1)]
            /\ cev' = Ended(rcall.target, "raised", "AIServiceError",
                            LastException(rcall.last_exception, rcall.attempt),
                            rcall.calls, rcall.failed + 1, rcall.sleeps, rcall.pre)
            /\ rcall' = NoCall
    /\ UNCHANGED <<now, ncalls, bvars, avars, ivars, evars, gvars, yvars>>

\* asyncio.sleep(delay) is over: the loop's next attempt.
Wake ==
    /\ rcall.pc = "sleeping"
    /\ now >= rcall.wake_at
    /\ rcall' = [rcall EXCEPT !.pc = "attempt", !.attempt = @ + 1, !.calls = @ + 1]
    /\ UNCHANGED <<now, breakers, ncalls, cev, bvars, avars, ivars, evars, gvars, yvars>>

ClientTick ==
    /\ now < ClientMaxTime
    /\ now' = now + 1
    /\ UNCHANGED <<bvars, cvars, avars, ivars, evars, gvars, yvars>>

ClientNext ==
    \/ \E tg \in Targets : LogicalCall(tg)
    \/ AttemptReturns
    \/ AttemptRaises
    \/ Wake
    \/ ClientTick

SpecClient == ClientInit /\ [][ClientNext]_vars

\* C6 (as stated): a logical call that fails increments its breaker's failure
\* counter once per failed attempt.
C6_FailurePerAttempt ==
    cev.outcome = "raised" =>
        breakers[cev.target].failure_count = cev.pre.failure_count + cev.failed

\* C6 (amended): a logical call the breaker admits and that fails increments
\* that breaker's failure counter exactly once, whatever the number of failed
\* attempts, and leaves the other breakers alone; a rejected call increments
\* nothing.
C6_FailurePerLogicalCall ==
    /\ cev.outcome = "raised" =>
          /\ breakers[cev.target].failure_count = cev.pre.failure_count + 1
          /\ cev.failed \in {0, MaxAttempts}
          /\ cev.target \in AIServices => cev.failed = 0
    /\ cev.outcome = "rejected" => breakers[cev.target] = cev.pre

C6_Witness ==
    /\ cev.outcome = "raised"
    /\ cev.target \in AIServices
    /\ cev.pre.failure_count = 1
    /\ breakers[cev.target].failure_count = 2
    /\ \E tg \in Targets : breakers[tg].failure_count = 1 /\ tg = "decorated_func"

\* C29: a function decorated with with_retry and called with positional
\* arguments is invoked at least once per call: every logical call of an AI
\* client's _call_production_api that its breaker admits has run the
\* function at least once when it ends.
C29_PositionalCallInvokes ==
    (cev.target \in AIServices /\ cev.outcome \in {"returned", "raised"}) =>
        /\ cev.calls >= 1
        /\ cev.exc # "TypeError"

\* C14: when every attempt fails, retry_with_backoff has invoked the function
\* max_retries + 1 times, has slept after every attempt but the last, and
\* raises the exception of the last attempt itself.
C14_ExhaustedRetry ==
    (cev.outcome = "raised" /\ cev.calls > 0) =>
        /\ cev.calls = MaxRetries + 1
        /\ cev.failed = cev.calls
        /\ Len(cev.sleeps) = MaxRetries
        /\ cev.raised_by = cev.calls
        /\ cev.exc = "AIServiceError"

C14_Witness ==
    /\ cev.outcome = "raised"
    /\ cev.target = "decorated_func"
    /\ cev.calls = MaxRetries + 1
    /\ cev.raised_by = MaxRetries + 1

\* C15: a function that fails k times (0 <= k <= max_retries) and then
\* succeeds has been called k + 1 times; retry_with_backoff has slept k times,
\* once after each failed attempt and never before the first, the i-th sleep
\* lasting initial_delay * backoff_factor^(i-1).
C15_TransientFailures ==
    /\ cev.outcome = "returned" =>
          /\ cev.failed \in 0 .. MaxRetries
          /\ cev.calls = cev.failed + 1
          /\ Len(cev.sleeps) = cev.failed
          /\ \A i \in 1 .. Len(cev.sleeps) :
                cev.sleeps[i] = InitialDelay * (BackoffFactor ^ (i - 1))
    /\ rcall.pc \in {"attempt", "sleeping"} =>
          /\ Len(rcall.sleeps) = rcall.failed
          /\ rcall.calls = rcall.attempt
          /\ rcall.pc = "attempt" => rcall.calls = rcall.failed + 1
          /\ rcall.pc = "sleeping" => rcall.calls = rcall.failed

C15_Witness ==
    /\ cev.outcome = "returned"
    /\ cev.failed = MaxRetries
    /\ cev.calls = MaxRetries + 1
    /\ Len(cev.sleeps) = MaxRetries
    /\ cev.sleeps[MaxRetries] > cev.sleeps[1]

-----------------------------------------------------------------------------
(* SpecAccept: concurrent POST /career-paths/{id}/accept requests, each in *)
(* its own AsyncSession (autoflush=False) and PostgreSQL transaction at    *)
(* READ COMMITTED: a statement sees the rows committed when it starts; an  *)
(* UPDATE locks each row it changes until its transaction ends, waits for  *)
(* a row another transaction has locked and then re-checks its WHERE       *)
(* clause on the row as committed; rows that did not match when the        *)
(* statement started are not looked at again.                              *)

Existing == {p \in PathIds : committed[p] # "absent"}

\* The transaction holding the row lock of p (0: none)
LockHolder(p) ==
    IF \E t \in Requests : p \in DOMAIN txn[t].writes
    THEN CHOOSE t \in Requests : p \in DOMAIN txn[t].writes
    ELSE 0

Free(p, t) == LockHolder(p) \in {0, t}

\* t cannot proceed before u ends: the row t updates next is locked by u.
WaitsFor(t, u) ==
    /\ t # u
    /\ \/ txn[t].pc = "bulk" /\ \E p \in txn[t].cand : LockHolder(p) = u
       \/ txn[t].pc = "bulk" /\ txn[t].cand = {} /\ LockHolder(txn[t].path) = u

RECURSIVE Reaches(_, _, _)
\* u is reachable from t in the waits-for graph in at most n steps
Reaches(t, u, n) ==
    IF n = 0 THEN FALSE
    ELSE \/ WaitsFor(t, u)
         \/ \E v \in Requests : WaitsFor(t, v) /\ Reaches(v, u, n - 1)

Deadlocked(t) == Reaches(t, t, MaxRequests)

\* The WHERE clause of the bulk UPDATE of CareerPathRepository.accept_path
MatchesOthers(p, path_id, user_id, status) ==
    /\ owner[p] = user_id
    /\ p # path_id
    /\ status \in {"proposed", "accepted"}

\* generate_career_paths commits k new rows with status "proposed" for a
\* subject (their only effect on career_paths).
GenerateCommit(s, k) ==
    /\ Cardinality(Existing) + k <= MaxPaths
    /\ LET new == (Cardinality(Existing) + 1) .. (Cardinality(Existing) + k) IN
         /\ committed' = [p \in PathIds |-> IF p \in new THEN "proposed" ELSE committed[p]]
         /\ owner' = [p \in PathIds |-> IF p \in new THEN s ELSE owner[p]]
         /\ aev' = [kind |-> "generate", req |-> 0, path |-> 0, user |-> s,
                    hi |-> 0, before |-> committed]
    /\ UNCHANGED <<txn, now, bvars, cvars, ivars, evars, gvars, yvars>>

ValidateResult_notdiscarded(status, path_user, user_id) ==
    IF status = "absent" THEN "NotFound"
    ELSE IF path_user # user_id THEN "Validation"
    ELSE IF status = "discarded" THEN "Conflict"
    ELSE "validated"

\* The three tests of accept_path on the path it loaded
ValidateResult(status, path_user, user_id) ==
    IF status = "absent" THEN "NotFound"
    ELSE IF path_user # user_id THEN "Validation"
    ELSE IF status # "proposed" THEN "Conflict"
    ELSE "validated"

\* CareerPathService.accept_path, lines 390-396: load the path and validate.
Validate(t, path_id, user_id) ==
    /\ txn[t].pc = "new"
    /\ t > 1 => txn[t - 1].pc # "new"
    /\ LET result == ValidateResult(committed[path_id], owner[path_id], user_id)
       IN txn' = [txn EXCEPT ![t] = [NoTxn EXCEPT !.pc = result,
                                                   !.path = path_id,
                                                   !.user = user_id,
                                                   !.hi = Cardinality(Existing)]]
    /\ UNCHANGED <<committed, owner, aev, now, bvars, cvars, ivars, evars, gvars, yvars>>

\* CareerPathRepository.accept_path, lines 129-149: path.status = "accepted"
\* stays in the session (autoflush is off); the bulk UPDATE starts and finds
\* its rows in the snapshot of that moment.
BulkBegin(t) ==
    /\ txn[t].pc = "validated"
    /\ txn' = [txn EXCEPT ![t].pc = "bulk",
                          ![t].cand = {p \in PathIds :
                              MatchesOthers(p, txn[t].path, txn[t].user, committed[p])}]
    /\ UNCHANGED <<committed, owner, aev, now, bvars, cvars, ivars, evars, gvars, yvars>>

\* The bulk UPDATE reaches row p: it takes the row lock, re-checks the WHERE
\* clause on the committed row and sets status = "discarded".
BulkRow(t, p) ==
    /\ txn[t].pc = "bulk"
    /\ p \in txn[t].cand
    /\ Free(p, t)
    /\ txn' = [txn EXCEPT
                 ![t].cand = @ \ {p},
                 ![t].writes = IF MatchesOthers(p, txn[t].path, txn[t].user, committed[p])
                               THEN (p :> "discarded") @@ @
                               ELSE @]
    /\ UNCHANGED <<committed, owner, aev, now, bvars, cvars, ivars, evars, gvars, yvars>>

\* CareerPathRepository.accept_path, line 151: session.flush() emits
\* UPDATE career_paths SET status = 'accepted' WHERE id = :path_id.
Flush(t) ==
    /\ txn[t].pc = "bulk"
    /\ txn[t].cand = {}
    /\ Free(txn[t].path, t)
    /\ txn' = [txn EXCEPT ![t].pc = "flushed",
                          ![t].writes = (txn[t].path :> "accepted") @@ @]
    /\ UNCHANGED <<committed, owner, aev, now, bvars, cvars, ivars, evars, gvars, yvars>>

\* CareerPathService.accept_path, line 410: uow.commit().
AcceptCommit(t) ==
    /\ txn[t].pc = "flushed"
    /\ committed' = [p \in PathIds |->
                       IF p \in DOMAIN txn[t].writes THEN txn[t].writes[p]
                       ELSE committed[p]]
    /\ txn' = [txn EXCEPT ![t].pc = "done", ![t].writes = << >>]
    /\ aev' = [kind |-> "accept", req |-> t, path |-> txn[t].path,
               user |-> txn[t].user, hi |-> txn[t].hi, before |-> committed]
    /\ UNCHANGED <<owner, now, bvars, cvars, ivars, evars, gvars, yvars>>

\* PostgreSQL aborts a transaction of a lock cycle; the request fails and
\* its session is closed without commit.
DeadlockAbort(t) ==
    /\ Deadlocked(t)
    /\ txn' = [txn EXCEPT ![t].pc = "deadlock", ![t].writes = << >>, ![t].cand = {}]
    /\ UNCHANGED <<committed, owner, aev, now, bvars, cvars, ivars, evars, gvars, yvars>>

AcceptInit ==
    /\ now = 0
    /\ AcceptIdle
    /\ BreakerIdle
    /\ ClientIdle
    /\ IngestIdle
    /\ EvalIdle
    /\ AggIdle
    /\ CycleIdle

AcceptNext ==
    \/ \E s \in Subjects, k \in 1 .. 2 : GenerateCommit(s, k)
    \/ \E t \in Requests, p \in PathIds, u \in Subjects : Validate(t, p, u)
    \/ \E t \in Requests : BulkBegin(t)
    \/ \E t \in Requests, p \in PathIds : BulkRow(t, p)
    \/ \E t \in Requests : Flush(t)
    \/ \E t \in Requests : AcceptCommit(t)
    \/ \E t \in Requests : DeadlockAbort(t)

SpecAccept == AcceptInit /\ [][AcceptNext]_vars

Accepted(s) == {p \in PathIds : owner[p] = s /\ committed[p] = "accepted"}

\* C7: in every committed state each subject has at most one CareerPath with
\* status accepted.
C7_AtMostOneAccepted ==
    \A s \in Subjects : Cardinality(Accepted(s)) <= 1

\* C8: the commit of an accept of path A leaves A accepted, every other path
\* of the subject that was accepted before the commit discarded, and every
\* other path the request could see that was proposed discarded; so no reader
\* ever sees A and B both accepted.
C8_AcceptIsAtomic ==
    aev.kind = "accept" =>
        /\ committed[aev.path] = "accepted"
        /\ \A p \in PathIds \ {aev.path} :
              (owner[p] = aev.user /\ aev.before[p] = "accepted")
              => committed[p] = "discarded"
        /\ \A p \in (1 .. aev.hi) \ {aev.path} :
              (owner[p] = aev.user /\ aev.before[p] = "proposed")
              => committed[p] = "discarded"

Failures == {"NotFound", "Validation", "Conflict"}

-----------------------------------------------------------------------------
(* SpecIngest: CareerPathService.generate_career_paths and                 *)
(* SkillsAssessmentService.generate_assessment, each request in its own    *)
(* session.  Rows added to a session are visible to others only after      *)
(* uow.commit(); a session closed without commit is rolled back.           *)

\* What the external call can raise: the breaker's rejection, the client's
\* AIServiceError (transport failure or non-2xx), the TypeError of
\* with_retry's argument binding.
Exceptions == {"ExternalServiceError", "AIServiceError", "TypeError"}

\* The steps of one generated path, each step given by its number of
\* development_actions titles: a path without steps, and a path of two steps
\* of which the second has no action.
PathShapes == {<< >>, <<2, 0>>}

RECURSIVE SeqsUpTo(_, _)
\* the sequences over S of length at most n
SeqsUpTo(S, n) ==
    IF n = 0 THEN {<< >>}
    ELSE LET shorter == SeqsUpTo(S, n - 1) IN
         shorter \cup {Append(q, x) : q \in shorter, x \in S}

\* A response: generated_paths for the career variant (each path is
\* persisted on its own, so the paths with steps are taken first), the items
\* of all four categories for the skills variant.
Responses(variant) ==
    IF variant = "career_paths"
    THEN {q \in SeqsUpTo(PathShapes, MaxGenPaths) :
             \A i \in 1 .. Len(q) - 1 : Len(q[i]) >= Len(q[i + 1])}
    ELSE SeqsUpTo({<< >>}, MaxItems)

RECURSIVE SumSeq(_)
SumSeq(q) == IF q = << >> THEN 0 ELSE Head(q) + SumSeq(Tail(q))

\* AICallsLog(..., status="pending"), created before the call
PendingLog == [status |-> "pending", error_message |-> "none"]

\* except-branch: created_log.status = "error"; error_message = str(e)
MarkError(log, e) == [log EXCEPT !.status = "error", !.error_message = e]

\* created_log.status = "success"
MarkSuccess(log) == [log EXCEPT !.status = "success"]

AfterPreCallCommit_flushonly(log) == NoLog

\* The committed audit row after the commit that precedes the call.
AfterPreCallCommit(log) == log

AfterErrorCommit_lost(old, log) == old

\* The committed audit row after the commit of the except-branch.
AfterErrorCommit(old, log) == log

AddPath_noactions(pending, shape) ==
    [pending EXCEPT !.paths = @ + 1, !.steps = @ + Len(shape)]

\* The rows one generated path adds to the session: the CareerPath, one
\* CareerPathStep per step, one DevelopmentAction per action title.
AddPath(pending, shape) ==
    [pending EXCEPT !.paths = @ + 1,
                    !.steps = @ + Len(shape),
                    !.actions = @ + SumSeq(shape)]

\* The rows the skills response adds: one SkillsAssessment and its items.
AddAssessment(pending, response) ==
    [pending EXCEPT !.assessments = @ + 1, !.items = @ + Len(response)]

\* The request finds no user / assessment / scores: NotFoundError before any
\* audit row is created.
BeginNotFound(r, variant) ==
    /\ ing[r].pc = "new"
    /\ r > 1 => ing[r - 1].pc # "new"     \* requests are numbered as they start
    /\ ing' = [ing EXCEPT ![r].pc = "not_found", ![r].variant = variant,
                          ![r].raised = "NotFoundError"]
    /\ UNCHANGED <<audit, rows, now, bvars, cvars, avars, evars, gvars, yvars>>

\* ai_calls_log.create(ai_log): the pending row is added and flushed.
CreateLog(r, variant) ==
    /\ ing[r].pc = "new"
    /\ r > 1 => ing[r - 1].pc # "new"     \* requests are numbered as they start
    /\ ing' = [ing EXCEPT ![r].pc = "log_created", ![r].variant = variant,
                          ![r].log = PendingLog]
    /\ UNCHANGED <<audit, rows, now, bvars, cvars, avars, evars, gvars, yvars>>

\* uow.commit() before the call; the external call starts.
CommitAndCall(r) ==
    /\ ing[r].pc = "log_created"
    /\ audit' = [audit EXCEPT ![r] = AfterPreCallCommit(ing[r].log)]
    /\ ing' = [ing EXCEPT ![r].pc = "calling"]
    /\ UNCHANGED <<rows, now, bvars, cvars, avars, evars, gvars, yvars>>

\* The external call raises: the log is marked and flushed.
CallRaises(r, e) ==
    /\ ing[r].pc = "calling"
    /\ ing' = [ing EXCEPT ![r].pc = "call_failed", ![r].exc = e,
                          ![r].log = MarkError(@, e)]
    /\ UNCHANGED <<audit, rows, now, bvars, cvars, avars, evars, gvars, yvars>>

ServiceErrorMessage_uniform(variant, e) == <<variant, "service failed">>

\* f"AI ... service failed: {e}": the text of the ingestor followed by the
\* text of the exception caught.  An exception stands for its text, as in
\* error_message: "Circuit breaker '...' is OPEN", the client's "AI Career
\* service failed" or "Failed to connect ...", the TypeError of the binding.
ServiceErrorMessage(variant, e) == <<variant, "service failed", e>>

\* uow.commit() of the except-branch, then raise ServiceError.
ErrorCommit(r) ==
    /\ ing[r].pc = "call_failed"
    /\ audit' = [audit EXCEPT ![r] = AfterErrorCommit(@, ing[r].log)]
    /\ rows' = [rows EXCEPT ![r] = [f \in DOMAIN ZeroRows |-> @[f] + ing[r].pending[f]]]
    /\ ing' = [ing EXCEPT ![r].pc = "raised", ![r].pending = ZeroRows,
                          ![r].raised = "ExternalServiceError",
                          ![r].message = ServiceErrorMessage(ing[r].variant,
                                                             ing[r].exc)]
    /\ UNCHANGED <<now, bvars, cvars, avars, evars, gvars, yvars>>

\* The external call returns a response.
CallReturns(r, resp) ==
    /\ ing[r].pc = "calling"
    /\ ing' = [ing EXCEPT ![r].pc = "persisting", ![r].response = resp]
    /\ UNCHANGED <<audit, rows, now, bvars, cvars, avars, evars, gvars, yvars>>

\* Career variant: the next generated path, its steps and its actions are
\* added to the session and flushed.
PersistPath(r) ==
    /\ ing[r].pc = "persisting"
    /\ ing[r].variant = "career_paths"
    /\ ing[r].persisted < Len(ing[r].response)
    /\ ing' = [ing EXCEPT
                 ![r].persisted = @ + 1,
                 ![r].pending = AddPath(@, ing[r].response[ing[r].persisted + 1])]
    /\ UNCHANGED <<audit, rows, now, bvars, cvars, avars, evars, gvars, yvars>>

\* Skills variant: the SkillsAssessment and its items are added and flushed.
PersistAssessment(r) ==
    /\ ing[r].pc = "persisting"
    /\ ing[r].variant = "skills_assessment"
    /\ ing[r].persisted = 0
    /\ ing' = [ing EXCEPT ![r].persisted = Len(ing[r].response) + 1,
                          ![r].pending = AddAssessment(@, ing[r].response)]
    /\ UNCHANGED <<audit, rows, now, bvars, cvars, avars, evars, gvars, yvars>>

\* Everything is in the session: the log is marked success and flushed.
FinishPersist(r) ==
    /\ ing[r].pc = "persisting"
    /\ IF ing[r].variant = "career_paths"
       THEN ing[r].persisted = Len(ing[r].response)
       ELSE ing[r].persisted = Len(ing[r].response) + 1
    /\ ing' = [ing EXCEPT ![r].pc = "ready", ![r].log = MarkSuccess(@)]
    /\ UNCHANGED <<audit, rows, now, bvars, cvars, avars, evars, gvars, yvars>>

AfterRollback_partial(done, pending) ==
    [f \in DOMAIN ZeroRows |-> done[f] + pending[f]]

\* The committed rows of a request whose session is closed without commit:
\* what the session added since its last commit is discarded.
AfterRollback(done, pending) == done

\* A flush or the final commit fails: the exception leaves the service, the
\* session is closed and its transaction rolled back.
PersistFails(r) ==
    /\ ing[r].pc \in {"persisting", "ready"}
    /\ rows' = [rows EXCEPT ![r] = AfterRollback(@, ing[r].pending)]
    /\ ing' = [ing EXCEPT ![r].pc = "db_error", ![r].pending = ZeroRows,
                          ![r].persisted = 0, ![r].response = << >>,
                          ![r].log = audit[r], ![r].raised = "DatabaseError"]
    /\ UNCHANGED <<audit, now, bvars, cvars, avars, evars, gvars, yvars>>

\* The final uow.commit(): rows and audit row become visible together.
SuccessCommit(r) ==
    /\ ing[r].pc = "ready"
    /\ audit' = [audit EXCEPT ![r] = ing[r].log]
    /\ rows' = [rows EXCEPT ![r] = [f \in DOMAIN ZeroRows |-> @[f] + ing[r].pending[f]]]
    /\ ing' = [ing EXCEPT ![r].pc = "done", ![r].pending = ZeroRows]
    /\ UNCHANGED <<now, bvars, cvars, avars, evars, gvars, yvars>>

IngestInit ==
    /\ now = 0
    /\ IngestIdle
    /\ BreakerIdle
    /\ ClientIdle
    /\ AcceptIdle
    /\ EvalIdle
    /\ AggIdle
    /\ CycleIdle

IngestNext ==
    \/ \E r \in IngestReqs, v \in Variants : BeginNotFound(r, v)
    \/ \E r \in IngestReqs, v \in Variants : CreateLog(r, v)
    \/ \E r \in IngestReqs : CommitAndCall(r)
    \/ \E r \in IngestReqs, e \in Exceptions : CallRaises(r, e)
    \/ \E r \in IngestReqs : ErrorCommit(r)
    \/ \E r \in IngestReqs : \E resp \in Responses(ing[r].variant) : CallReturns(r, resp)
    \/ \E r \in IngestReqs : PersistPath(r)
    \/ \E r \in IngestReqs : PersistAssessment(r)
    \/ \E r \in IngestReqs : FinishPersist(r)
    \/ \E r \in IngestReqs : PersistFails(r)
    \/ \E r \in IngestReqs : SuccessCommit(r)

SpecIngest == IngestInit /\ [][IngestNext]_vars

AfterCall == {"call_failed", "raised", "persisting", "ready", "done", "db_error"}

\* C9: for every ingestor invocation that reaches the external call, an
\* audit row with status pending is committed when the call starts, and the
\* row still exists after the call, whether it succeeded or failed.
C9_AuditBeforeCall ==
    \A r \in IngestReqs :
        /\ ing[r].pc = "calling" => audit[r] = PendingLog
        /\ ing[r].pc \in AfterCall => audit[r].status # "absent"
        /\ ing[r].pc \in {"persisting", "ready", "call_failed", "db_error"}
              => audit[r].status = "pending"

C9_Witness ==
    \E r, q \in IngestReqs :
        /\ ing[r].pc = "raised" /\ ing[r].variant = "career_paths"
        /\ ing[q].pc = "done" /\ ing[q].variant = "skills_assessment"
        /\ audit[r].status = "error"
        /\ audit[q].status = "success"

\* C10: if the external call raises, the ingestor commits the audit row with
\* status error and the error message, commits no generated row, and raises
\* to its caller.
C10_CallFailure ==
    \A r \in IngestReqs :
        /\ ing[r].pc \in {"call_failed", "raised"} => rows[r] = ZeroRows
        /\ ing[r].pc = "raised" =>
              /\ audit[r] = [status |-> "error", error_message |-> ing[r].exc]
              /\ ing[r].exc \in Exceptions
              /\ ing[r].raised = "ExternalServiceError"

C10_Witness ==
    \E r, q \in IngestReqs :
        /\ ing[r].pc = "raised" /\ ing[r].variant = "skills_assessment"
        /\ ing[r].exc = "TypeError"
        /\ audit[r].status = "error"
        /\ ing[q].pc = "raised" /\ ing[q].variant = "career_paths"
        /\ ing[q].exc = "ExternalServiceError"

\* C11: if persistence fails after a successful external call, no CareerPath,
\* CareerPathStep or DevelopmentAction row (no SkillsAssessment or item row)
\* of the request is committed, and its only committed trace is the audit row
\* of before the call, still pending.
C11_PersistenceFailureRollsBack ==
    \A r \in IngestReqs :
        ing[r].pc = "db_error" =>
            /\ rows[r] = ZeroRows
            /\ audit[r] = PendingLog
            /\ ing[r].raised = "DatabaseError"

C11_Witness ==
    \E r, q \in IngestReqs :
        /\ ing[r].pc = "db_error" /\ ing[r].variant = "career_paths"
        /\ ing[q].pc = "done" /\ rows[q].paths > 0

RECURSIVE CountSteps(_)
\* the steps listed in a response
CountSteps(resp) ==
    IF resp = << >> THEN 0 ELSE Len(Head(resp)) + CountSteps(Tail(resp))

RECURSIVE CountActions(_)
\* the action titles listed in a response
CountActions(resp) ==
    IF resp = << >> THEN 0 ELSE SumSeq(Head(resp)) + CountActions(Tail(resp))

\* C12: when the career-path call succeeds with P paths, the request commits
\* P CareerPath rows, one CareerPathStep per listed step, one
\* DevelopmentAction per listed action title and the audit row's change to
\* success together: before that commit none of them is committed, and a
\* success audit row never exists without the whole graph.
C12_GraphCommitsWhole ==
    \A r \in IngestReqs :
        ing[r].variant = "career_paths" =>
            /\ ing[r].pc = "done" =>
                  /\ rows[r].paths = Len(ing[r].response)
                  /\ rows[r].steps = CountSteps(ing[r].response)
                  /\ rows[r].actions = CountActions(ing[r].response)
                  /\ audit[r].status = "success"
            /\ ing[r].pc # "done" =>
                  /\ rows[r] = ZeroRows
                  /\ audit[r].status # "success"

C12_Witness ==
    \E r \in IngestReqs :
        /\ ing[r].pc = "done"
        /\ ing[r].variant = "career_paths"
        /\ ing[r].response = << <<2, 0>>, <<2, 0>> >>
        /\ rows[r].paths = 2 /\ rows[r].steps = 4 /\ rows[r].actions = 4

\* What the caller of a failed ingestor holds: the class of the error, its
\* details["service"] and its message
ErrorSeen(r) ==
    [class |-> ing[r].raised, service |-> ing[r].variant,
     message |-> ing[r].message]

\* C24 as stated: two requests of one ingestor whose external calls raised
\* reach their callers with the same error, whatever each call raised.
C24_Indistinguishable ==
    \A r, q \in IngestReqs :
        (/\ ing[r].pc = "raised" /\ ing[q].pc = "raised"
         /\ ing[r].variant = ing[q].variant)
        => ErrorSeen(r) = ErrorSeen(q)

\* C24: whatever the external call raised, the caller gets an
\* ExternalServiceError naming the ingestor's service, so the class of the
\* original exception is lost; the message of the error ends with the text
\* of the original exception, which still tells a circuit-open rejection
\* from a failure of the call.
C24_SameClassOwnMessage ==
    \A r \in IngestReqs :
        ing[r].pc = "raised" =>
            /\ ErrorSeen(r).class = "ExternalServiceError"
            /\ ErrorSeen(r).service = ing[r].variant
            /\ ErrorSeen(r).message = <<ing[r].variant, "service failed", ing[r].exc>>
            /\ ing[r].exc \in Exceptions

\* A circuit-open rejection and a TypeError of the same ingestor
C24_Witness ==
    \E r, q \in IngestReqs :
        /\ ing[r].pc = "raised" /\ ing[q].pc = "raised"
        /\ ing[r].variant = ing[q].variant
        /\ ing[r].exc = "ExternalServiceError"
        /\ ing[q].exc = "TypeError"
        /\ ErrorSeen(r).class = ErrorSeen(q).class
        /\ ErrorSeen(r).message # ErrorSeen(q).message

-----------------------------------------------------------------------------
(* SpecAudit: ingestor invocations, one after the other, each making its   *)
(* external call through a client: an AI client in dummy mode, an AI       *)
(* client in production mode, or an injected client whose call is a        *)
(* decorated function without positional argument.                         *)

\* The breaker name of the client each service calls.
ServiceOf(variant) ==
    IF variant = "career_paths" THEN "ai_career_service" ELSE "ai_skills_service"

\* The invocations whose external call is over.
PastCall == {q \in IngestReqs : ing[q].pc \in AfterCall}

\* The invocation r is at its external call and the client has not been
\* called yet / has returned or raised.
CallNotStarted(r) ==
    ing[r].pc = "calling" /\ rcall.pc = "idle" /\ ncalls = Cardinality(PastCall)

CallEnded(r) ==
    ing[r].pc = "calling" /\ rcall.pc = "idle" /\ ncalls = Cardinality(PastCall) + 1

\* settings.use_ai_dummy_mode: the client sleeps and returns the dummy
\* response; the decorated _call_production_api is not reached.
DummyCall(tg) ==
    /\ rcall.pc = "idle"
    /\ ncalls < MaxLogicalCalls
    /\ ncalls' = ncalls + 1
    /\ cev' = Ended(tg, "returned", "none", 0, 0, 0, << >>, breakers[tg])
    /\ UNCHANGED <<breakers, rcall, now, bvars, avars, ivars, evars, gvars, yvars>>

AuditBegin(r, variant) ==
    /\ \A q \in IngestReqs : ing[q].pc \notin {"log_created", "calling"}
    /\ CreateLog(r, variant)

AuditNotFound(r, variant) ==
    /\ \A q \in IngestReqs : ing[q].pc \notin {"log_created", "calling"}
    /\ BeginNotFound(r, variant)

AuditDummyCall(r) ==
    /\ CallNotStarted(r)
    /\ DummyCall(ServiceOf(ing[r].variant))

AuditLogicalCall(r) ==
    /\ CallNotStarted(r)
    /\ \E tg \in {ServiceOf(ing[r].variant), "decorated_func"} : LogicalCall(tg)

AuditCallRaises(r) ==
    /\ CallEnded(r)
    /\ cev.outcome \in {"raised", "rejected"}
    /\ CallRaises(r, cev.exc)

\* The responses with at most one path / one item: what a response holds
\* has no part in the audit trail.
ShortResponses(variant) == {resp \in Responses(variant) : Len(resp) <= 1}

AuditCallReturns(r) ==
    /\ CallEnded(r)
    /\ cev.outcome = "returned"
    /\ \E resp \in ShortResponses(ing[r].variant) : CallReturns(r, resp)

\* Time passes while the retry loop sleeps.
AuditTick ==
    /\ rcall.pc = "sleeping"
    /\ now < rcall.wake_at
    /\ ClientTick

AuditInit ==
    /\ now = 0
    /\ IngestIdle
    /\ ClientIdle
    /\ BreakerIdle
    /\ AcceptIdle
    /\ EvalIdle
    /\ AggIdle
    /\ CycleIdle

AuditNext ==
    \/ \E r \in IngestReqs, v \in Variants : AuditNotFound(r, v)
    \/ \E r \in IngestReqs, v \in Variants : AuditBegin(r, v)
    \/ \E r \in IngestReqs : CommitAndCall(r)
    \/ \E r \in IngestReqs : AuditDummyCall(r)
    \/ \E r \in IngestReqs : AuditLogicalCall(r)
    \/ AttemptReturns
    \/ AttemptRaises
    \/ Wake
    \/ AuditTick
    \/ \E r \in IngestReqs : AuditCallRaises(r)
    \/ \E r \in IngestReqs : AuditCallReturns(r)
    \/ \E r \in IngestReqs : ErrorCommit(r)
    \/ \E r \in IngestReqs : PersistPath(r)
    \/ \E r \in IngestReqs : PersistAssessment(r)
    \/ \E r \in IngestReqs : FinishPersist(r)
    \/ \E r \in IngestReqs : PersistFails(r)
    \/ \E r \in IngestReqs : SuccessCommit(r)

SpecAudit == AuditInit /\ [][AuditNext]_vars

\* The committed audit rows.
AuditRecords == {q \in IngestReqs : audit[q].status # "absent"}

-----------------------------------------------------------------------------
(* SpecComplete: is_cycle_complete_for_user applied to any sequence of     *)
(* evaluations                                                             *)

\* The keys of `counts`
Relationships == {"self", "manager", "peer", "direct_report"}

\* An evaluator_relationship is any string: one that is no key of `counts`
EvaluatorRelationships == Relationships \cup {"mentor"}

Statuses == {"submitted", "pending", "cancelled"}

\* (min_peers, min_direct_reports): the defaults and two other choices
Thresholds == {<<2, 0>>, <<1, 1>>, <<0, 0>>}

\* Evaluation entities without competency scores, submitted or not
Unscored ==
    [evaluator_relationship : EvaluatorRelationships,
     status : {"submitted", "pending"}, competency_scores : {<< >>}]

IsSubmitted_notcancelled(e) == e.status # "cancelled"

\* EvaluationEntity.is_submitted
IsSubmitted(e) == e.status = "submitted"

RECURSIVE CountBy(_, _)
\* counts[rel] after the loop over the evaluations
CountBy(evaluations, rel) ==
    IF evaluations = << >> THEN 0
    ELSE LET e == Head(evaluations) IN
         (IF IsSubmitted(e) /\ e.evaluator_relationship \in Relationships
                            /\ e.evaluator_relationship = rel
          THEN 1 ELSE 0) + CountBy(Tail(evaluations), rel)

Below_orequal(count, minimum) == count <= minimum

\* counts[...] < minimum
Below(count, minimum) == count < minimum

\* One element of missing_parts: the kind it names and, for peers and direct
\* reports, the numbers its text holds (-1: the text holds none).
Part(kind, minimum, has) == [kind |-> kind, minimum |-> minimum, has |-> has]

MissingParts_first(counts, min_peers, min_direct_reports) ==
    IF Below(counts["self"], 1) THEN <<Part("self", -1, -1)>>
    ELSE IF Below(counts["manager"], 1) THEN <<Part("manager", -1, -1)>>
    ELSE IF Below(counts["peer"], min_peers)
         THEN <<Part("peer", min_peers, counts["peer"])>>
    ELSE IF Below(counts["direct_report"], min_direct_reports)
         THEN <<Part("direct_report", min_direct_reports, counts["direct_report"])>>
    ELSE << >>

\* missing_parts, in the order the four checks append to it
MissingParts(counts, min_peers, min_direct_reports) ==
    (IF Below(counts["self"], 1) THEN <<Part("self", -1, -1)>> ELSE << >>)
    \o (IF Below(counts["manager"], 1) THEN <<Part("manager", -1, -1)>> ELSE << >>)
    \o (IF Below(counts["peer"], min_peers)
        THEN <<Part("peer", min_peers, counts["peer"])>> ELSE << >>)
    \o (IF Below(counts["direct_report"], min_direct_reports)
        THEN <<Part("direct_report", min_direct_reports, counts["direct_report"])>>
        ELSE << >>)

\* is_cycle_complete_for_user: (True, None), or (False, "Missing: " + parts)
IsCycleCompleteForUser(evaluations, min_peers, min_direct_reports) ==
    LET counts == [rel \in Relationships |-> CountBy(evaluations, rel)]
        missing_parts == MissingParts(counts, min_peers, min_direct_reports)
    IN IF missing_parts # << >>
       THEN [complete |-> FALSE, reason |-> <<Part("Missing: ", -1, -1)>> \o missing_parts]
       ELSE [complete |-> TRUE, reason |-> << >>]

CompleteInit ==
    /\ now = 0
    /\ evals \in SeqsUpTo(Unscored, MaxEvals)
    /\ verdict = NoVerdict
    /\ aggregated = NoAggregate
    /\ BreakerIdle
    /\ ClientIdle
    /\ AcceptIdle
    /\ IngestIdle
    /\ AggIdle
    /\ CycleIdle

\* is_cycle_complete_for_user(evals, min_peers, min_direct_reports)
CheckComplete(min_peers, min_direct_reports) ==
    /\ LET r == IsCycleCompleteForUser(evals, min_peers, min_direct_reports)
       IN verdict' = [min_peers |-> min_peers,
                      min_direct_reports |-> min_direct_reports,
                      complete |-> r.complete, reason |-> r.reason]
    /\ UNCHANGED <<evals, aggregated, now, bvars, cvars, avars, ivars, gvars, yvars>>

CompleteNext == \E th \in Thresholds : CheckComplete(th[1], th[2])

SpecComplete == CompleteInit /\ [][CompleteNext]_vars

Checked == verdict.reason # <<"unchecked">>

\* The submitted evaluations of a relationship-kind among evals
SubmittedOf(rel) ==
    {i \in DOMAIN evals : /\ evals[i].status = "submitted"
                          /\ evals[i].evaluator_relationship = rel}

\* The threshold of each relationship-kind in the last check
Threshold(rel) ==
    CASE rel = "peer" -> verdict.min_peers
      [] rel = "direct_report" -> verdict.min_direct_reports
      [] OTHER -> 1

Met(rel) == Cardinality(SubmittedOf(rel)) >= Threshold(rel)

\* C18: the check returns complete = true with no reason exactly when the
\* submitted evaluations hold at least 1 self, 1 manager, min_peers peer and
\* min_direct_reports direct_report evaluations; otherwise complete = false.
C18_CompleteIffThresholds ==
    Checked =>
        /\ verdict.complete <=> \A rel \in Relationships : Met(rel)
        /\ verdict.complete => verdict.reason = << >>

C18_Witness ==
    /\ Checked
    /\ verdict.complete
    /\ verdict.min_peers = 2 /\ verdict.min_direct_reports = 0
    /\ Len(evals) = 4

\* The kinds the reason names
Named == {verdict.reason[i].kind : i \in 2 .. Len(verdict.reason)}

\* C19: when the check returns complete = false, the reason names every
\* relationship-kind whose threshold is not met and no other kind.
C19_ReasonNamesMissing ==
    (Checked /\ ~verdict.complete) =>
        /\ Len(verdict.reason) >= 2
        /\ verdict.reason[1].kind = "Missing: "
        /\ Named = {rel \in Relationships : ~Met(rel)}
        /\ Len(verdict.reason) = 1 + Cardinality(Named)

C19_Witness ==
    /\ Checked
    /\ ~verdict.complete
    /\ Named = {"manager", "peer"}
    /\ \E i \in DOMAIN evals : evals[i].evaluator_relationship = "peer"
                                /\ evals[i].status = "submitted"

-----------------------------------------------------------------------------
(* SpecScores: both domain functions applied to any sequence of            *)
(* evaluations with competency scores                                      *)

Skills == {"s1", "s2"}

\* CompetencyScore(skill_id, score), 0 <= score <= 10
CompetencyScore(skill_id, score) == [skill_id |-> skill_id, score |-> score]

\* The competency_scores of an evaluation
ScoreLists ==
    {<<CompetencyScore("s1", 4)>>,
     <<CompetencyScore("s1", 8), CompetencyScore("s2", 6)>>}

Scored ==
    [evaluator_relationship : EvaluatorRelationships, status : Statuses,
     competency_scores : ScoreLists]

EmptyDict == [k \in {} |-> 0]

\* scores_by_skill[skill_id] when the skill is first met
NewEntry == [rel \in Relationships |-> << >>]

RECURSIVE AppendScores(_, _, _)
\* The inner loop over evaluation.competency_scores: the entry of the skill
\* is created if absent, then the score is appended to the list of the
\* relationship; a relationship that is no key of the entry raises KeyError.
AppendScores(acc, rel, comp_scores) ==
    IF acc.raised # "none" \/ comp_scores = << >> THEN acc
    ELSE LET c == Head(comp_scores)
             d == acc.value
             e == IF c.skill_id \in DOMAIN d THEN d[c.skill_id] ELSE NewEntry
         IN IF rel \notin Relationships
            THEN [raised |-> "KeyError", value |-> d]
            ELSE AppendScores(
                   [raised |-> "none",
                    value |-> [k \in DOMAIN d \cup {c.skill_id} |->
                                 IF k = c.skill_id
                                 THEN [e EXCEPT ![rel] = Append(@, c.score)]
                                 ELSE d[k]]],
                   rel, Tail(comp_scores))

RECURSIVE CollectScores(_, _)
\* The loop over the evaluations: those not submitted are skipped.
CollectScores(acc, evaluations) ==
    IF acc.raised # "none" \/ evaluations = << >> THEN acc
    ELSE LET e == Head(evaluations) IN
         IF ~IsSubmitted(e)
         THEN CollectScores(acc, Tail(evaluations))
         ELSE CollectScores(
                AppendScores(acc, e.evaluator_relationship, e.competency_scores),
                Tail(evaluations))

Avg_offbyone(scores) == [sum |-> SumSeq(scores), n |-> Len(scores) + 1]

\* sum(scores) / len(scores) as the fraction sum / n, None as n = 0
Avg(scores) == [sum |-> SumSeq(scores), n |-> Len(scores)]

Confidence_strict(total_n) ==
    IF total_n > 5 THEN 9
    ELSE IF total_n > 3 THEN 7
    ELSE IF total_n > 1 THEN 5
    ELSE 0

\* confidence, in tenths
Confidence(total_n) ==
    IF total_n >= 5 THEN 9
    ELSE IF total_n >= 3 THEN 7
    ELSE IF total_n >= 1 THEN 5
    ELSE 0

\* The statistics of one skill
Stats(by_rel) ==
    LET all_scores == by_rel["self"] \o by_rel["peer"] \o by_rel["manager"]
                      \o by_rel["direct_report"]
    IN [overall_avg |-> IF all_scores # << >> THEN Avg(all_scores)
                        ELSE [sum |-> 0, n |-> 1],
        self_avg |-> Avg(by_rel["self"]),
        peer_avg |-> Avg(by_rel["peer"]),
        manager_avg |-> Avg(by_rel["manager"]),
        direct_report_avg |-> Avg(by_rel["direct_report"]),
        n_self |-> Len(by_rel["self"]),
        n_peer |-> Len(by_rel["peer"]),
        n_manager |-> Len(by_rel["manager"]),
        n_direct_report |-> Len(by_rel["direct_report"]),
        confidence |-> Confidence(Len(all_scores)),
        raw_stats |-> by_rel]

\* aggregate_competency_scores: skill_id -> statistics, or KeyError
AggregateCompetencyScores(evaluations) ==
    LET c == CollectScores([raised |-> "none", value |-> EmptyDict], evaluations)
    IN IF c.raised # "none"
       THEN [raised |-> "KeyError", value |-> EmptyDict]
       ELSE [raised |-> "none",
             value |-> [k \in DOMAIN c.value |-> Stats(c.value[k])]]

ScoresInit ==
    /\ now = 0
    /\ evals \in SeqsUpTo(Scored, MaxScored)
    /\ verdict = NoVerdict
    /\ aggregated = NoAggregate
    /\ BreakerIdle
    /\ ClientIdle
    /\ AcceptIdle
    /\ IngestIdle
    /\ AggIdle
    /\ CycleIdle

\* aggregate_competency_scores(evals)
AggregateScores ==
    /\ aggregated' = AggregateCompetencyScores(evals)
    /\ UNCHANGED <<evals, verdict, now, bvars, cvars, avars, ivars, gvars, yvars>>

ScoresNext ==
    \/ \E th \in Thresholds : CheckComplete(th[1], th[2])
    \/ AggregateScores

SpecScores == ScoresInit /\ [][ScoresNext]_vars

OnlySubmitted(e) == e.status = "submitted"

\* The scores given to a skill by the submitted evaluations of a relationship
ScoresOf(k, rel) ==
    {<<i, j>> \in (DOMAIN evals) \X (1 .. 2) :
        /\ evals[i].status = "submitted"
        /\ evals[i].evaluator_relationship = rel
        /\ j \in DOMAIN evals[i].competency_scores
        /\ evals[i].competency_scores[j].skill_id = k}

\* C20: evaluations that are not submitted count toward no threshold and
\* give no score to any aggregate: both results are those of the submitted
\* evaluations alone, and every aggregate counts submitted scores only.
C20_OnlySubmittedCount ==
    /\ Checked =>
          LET r == IsCycleCompleteForUser(SelectSeq(evals, OnlySubmitted),
                                          verdict.min_peers,
                                          verdict.min_direct_reports)
          IN verdict.complete = r.complete /\ verdict.reason = r.reason
    /\ aggregated.raised # "uncalled" =>
          aggregated = AggregateCompetencyScores(SelectSeq(evals, OnlySubmitted))
    /\ aggregated.raised = "none" =>
          \A k \in Skills :
              IF k \in DOMAIN aggregated.value
              THEN \A rel \in Relationships :
                      Len(aggregated.value[k].raw_stats[rel])
                        = Cardinality(ScoresOf(k, rel))
              ELSE \A rel \in Relationships : ScoresOf(k, rel) = {}

C20_Witness ==
    /\ Len(evals) = 2
    /\ evals[1].status = "cancelled"
    /\ evals[1].evaluator_relationship = "peer"
    /\ evals[2].status = "submitted"
    /\ evals[2].evaluator_relationship = "peer"
    /\ aggregated.raised = "none"
    /\ DOMAIN aggregated.value = {"s1"}
    /\ aggregated.value["s1"].n_peer = 1
    /\ Checked /\ ~verdict.complete /\ verdict.min_peers = 2

-----------------------------------------------------------------------------
(* SpecAggregate: concurrent process_evaluation and create_evaluation      *)
(* requests on one (user, cycle) pair.  Each request has its own session   *)
(* and transaction; the database runs them READ COMMITTED, so a statement  *)
(* sees what was committed when it started, a DELETE waits for a row that  *)
(* another open transaction deleted, and an INSERT waits for an index      *)
(* entry of uq_user_cycle_skill_source that another open transaction       *)
(* created or deleted.                                                     *)

Submitted(rel, comp_scores) ==
    [evaluator_relationship |-> rel, status |-> "submitted",
     competency_scores |-> comp_scores]

\* The evaluations of the pair when the model starts
FirstEvaluations ==
    <<Submitted("self", <<CompetencyScore("s1", 4)>>),
      Submitted("manager", <<CompetencyScore("s1", 8)>>),
      Submitted("peer", <<CompetencyScore("s1", 4)>>)>>

\* The requests create_evaluation gets: evaluator_relationship is any string
CreateRequests ==
    {Submitted("peer", <<CompetencyScore("s1", 4)>>),
     Submitted("peer", <<CompetencyScore("s1", 8), CompetencyScore("s2", 6)>>),
     Submitted("mentor", <<CompetencyScore("s1", 4)>>)}

\* The primary key of a row: a fresh uuid4 for each row of each request
RowId(x) == <<x.gen, x.skill_id>>

\* Rows a statement starting now sees: those of committed transactions
Visible(tab) == {x \in tab : x.created = "committed"}

\* The columns of a row that do not name the row itself
Content(tab) ==
    {[skill_id |-> x.skill_id, source |-> x.source, score |-> x.score,
      confidence |-> x.confidence, raw_stats |-> x.raw_stats] : x \in tab}

\* UserSkillScore(...) for each skill of the aggregate
NewScores(aggregated_value, gen) ==
    {[gen |-> gen, skill_id |-> k, source |-> "360_aggregated",
      score |-> aggregated_value[k].overall_avg,
      confidence |-> aggregated_value[k].confidence,
      raw_stats |-> aggregated_value[k].raw_stats,
      created |-> "pending", deleter |-> 0] : k \in DOMAIN aggregated_value}

\* uq_user_cycle_skill_source: the rows whose index entry a new row meets
Conflicts_none(tab, new, gen) == {}

Conflicts(tab, new, gen) ==
    {x \in tab : /\ x.deleter # gen
                 /\ \E y \in new : y.skill_id = x.skill_id /\ y.source = x.source}

\* A row whose creating or deleting transaction is still open
InDoubt(x, gen) ==
    \/ x.created = "pending" /\ x.gen # gen
    \/ x.deleter \notin {0, gen}

\* COMMIT of the transaction of request gen
CommitRows_insertsonly(tab, gen) ==
    {[x EXCEPT !.created = IF x.gen = gen THEN "committed" ELSE @,
               !.deleter = IF @ = gen THEN 0 ELSE @] : x \in tab}

CommitRows(tab, gen) ==
    {[x EXCEPT !.created = IF x.gen = gen THEN "committed" ELSE @] :
        x \in {y \in tab : y.deleter # gen}}

\* ROLLBACK of the transaction of request gen
RollbackRows(tab, gen) ==
    {[x EXCEPT !.deleter = IF @ = gen THEN 0 ELSE @] :
        x \in {y \in tab : ~(y.created = "pending" /\ y.gen = gen)}}

AggregateInit ==
    /\ now = 0
    /\ etab = FirstEvaluations
    /\ stab = {}
    /\ run = [r \in 1 .. NumRuns |-> NoRun]
    /\ nstart = 0
    /\ gev = NoRunCommit
    /\ BreakerIdle
    /\ ClientIdle
    /\ AcceptIdle
    /\ IngestIdle
    /\ EvalIdle
    /\ CycleIdle

\* create_evaluation: the evaluation and its scores are committed together,
\* always as submitted.
CreateEvaluation(req) ==
    /\ Len(etab) < Len(FirstEvaluations) + MaxNew
    /\ etab' = Append(etab, req)
    /\ UNCHANGED <<stab, run, nstart, gev, now, bvars, cvars, avars, ivars, evars, yvars>>

\* process_evaluation up to the completeness test, cycle incomplete:
\* ConflictError, nothing was written.  A request takes the first free
\* session.
RunConflict(r) ==
    /\ run[r].pc = "idle"
    /\ \A q \in 1 .. r - 1 : run[q].pc # "idle"
    /\ nstart < MaxStarts
    /\ ~IsCycleCompleteForUser(etab, 2, 0).complete
    /\ nstart' = nstart + 1
    /\ UNCHANGED <<etab, stab, run, gev, now, bvars, cvars, avars, ivars, evars, yvars>>

\* process_evaluation up to the completeness test, cycle complete
RunChecks(r) ==
    /\ run[r].pc = "idle"
    /\ \A q \in 1 .. r - 1 : run[q].pc # "idle"
    /\ nstart < MaxStarts
    /\ IsCycleCompleteForUser(etab, 2, 0).complete
    /\ nstart' = nstart + 1
    /\ run' = [run EXCEPT ![r] = [NoRun EXCEPT !.pc = "checked",
                                               !.gen = nstart + 1]]
    /\ UNCHANGED <<etab, stab, gev, now, bvars, cvars, avars, ivars, evars, yvars>>

\* _aggregate_user_skill_scores: the SELECT of the submitted evaluations and
\* aggregate_competency_scores; a KeyError ends the request.
RunReads(r) ==
    /\ run[r].pc = "checked"
    /\ run' = [run EXCEPT ![r] =
                 IF AggregateCompetencyScores(etab).raised = "none"
                 THEN [@ EXCEPT !.pc = "delete", !.read = etab]
                 ELSE NoRun]
    /\ UNCHANGED <<etab, stab, nstart, gev, now, bvars, cvars, avars, ivars, evars, yvars>>

\* delete_by_user_and_cycle: the DELETE starts and sees the committed rows.
RunDeleteStarts(r) ==
    /\ run[r].pc = "delete"
    /\ run' = [run EXCEPT ![r].pc = "deleting", ![r].snap = {RowId(x) : x \in Visible(stab)}]
    /\ UNCHANGED <<etab, stab, nstart, gev, now, bvars, cvars, avars, ivars, evars, yvars>>

\* The DELETE ends once no row it saw is held by another open transaction;
\* a row it saw that a committed transaction deleted meanwhile is passed over.
RunDeletes(r) ==
    /\ run[r].pc = "deleting"
    /\ \A x \in stab : RowId(x) \in run[r].snap => x.deleter = 0
    /\ stab' = {IF RowId(x) \in run[r].snap THEN [x EXCEPT !.deleter = run[r].gen]
                ELSE x : x \in stab}
    /\ run' = [run EXCEPT ![r].pc = "insert", ![r].snap = {}]
    /\ UNCHANGED <<etab, nstart, gev, now, bvars, cvars, avars, ivars, evars, yvars>>

\* create_bulk, no row of the index in the way: the new rows are flushed.
RunInserts(r) ==
    /\ run[r].pc = "insert"
    /\ LET new == NewScores(AggregateCompetencyScores(run[r].read).value,
                            run[r].gen)
           met == Conflicts(stab, new, run[r].gen)
       IN /\ new # {}
          /\ met = {}
          /\ stab' = stab \cup new
    /\ run' = [run EXCEPT ![r].pc = "commit"]
    /\ UNCHANGED <<etab, nstart, gev, now, bvars, cvars, avars, ivars, evars, yvars>>

\* create_bulk, a committed row in the way: IntegrityError, the session is
\* closed without a commit.
RunInsertFails(r) ==
    /\ run[r].pc = "insert"
    /\ LET new == NewScores(AggregateCompetencyScores(run[r].read).value,
                            run[r].gen)
           met == Conflicts(stab, new, run[r].gen)
       IN /\ met # {}
          /\ \A x \in met : ~InDoubt(x, run[r].gen)
    /\ stab' = RollbackRows(stab, run[r].gen)
    /\ run' = [run EXCEPT ![r] = NoRun]
    /\ UNCHANGED <<etab, nstart, gev, now, bvars, cvars, avars, ivars, evars, yvars>>

\* uow.commit() of process_evaluation
RunCommits(r) ==
    /\ run[r].pc = "commit"
    /\ stab' = CommitRows(stab, run[r].gen)
    /\ gev' = [kind |-> "commit", gen |-> run[r].gen, read |-> run[r].read,
               prev_read |-> gev.read, before |-> Content(Visible(stab))]
    /\ run' = [run EXCEPT ![r] = NoRun]
    /\ UNCHANGED <<etab, nstart, now, bvars, cvars, avars, ivars, evars, yvars>>

AggregateNext ==
    \/ \E req \in CreateRequests : CreateEvaluation(req)
    \/ \E r \in 1 .. NumRuns :
          \/ RunConflict(r)
          \/ RunChecks(r)
          \/ RunReads(r)
          \/ RunDeleteStarts(r)
          \/ RunDeletes(r)
          \/ RunInserts(r)
          \/ RunInsertFails(r)
          \/ RunCommits(r)

SpecAggregate == AggregateInit /\ [][AggregateNext]_vars

\* The skills with at least one score in the evaluations
ScoredSkills(evaluations) ==
    {k \in Skills : \E i \in DOMAIN evaluations :
        \E j \in DOMAIN evaluations[i].competency_scores :
            /\ evaluations[i].status = "submitted"
            /\ evaluations[i].competency_scores[j].skill_id = k}

\* C16: once an aggregation run has committed, and until the next one
\* commits, the rows of the pair are those the run created and no other:
\* exactly one row for each skill scored in the submitted evaluations the
\* run read, holding the statistics of those evaluations, and none for
\* any other skill.
C16_RowsAreFreshSet ==
    gev.kind = "commit" =>
        /\ \A x \in Visible(stab) : x.gen = gev.gen
        /\ \A k \in Skills :
              Cardinality({x \in Visible(stab) : x.skill_id = k})
                = IF k \in ScoredSkills(gev.read) THEN 1 ELSE 0
        /\ Content(Visible(stab))
             = Content(NewScores(AggregateCompetencyScores(gev.read).value, 0))

\* A second run has replaced the rows of a first one, after an evaluation
\* with a new skill was created
C16_Witness ==
    /\ gev.kind = "commit"
    /\ gev.before # {}
    /\ gev.read # gev.prev_read
    /\ Cardinality(Visible(stab)) = 2
    /\ Cardinality(gev.before) = 1

\* C17: when a run commits after a run that read the same evaluations, the
\* rows of the pair are, apart from their ids, those the first run left:
\* one row per skill.
C17_SecondRunSameRows ==
    (gev.kind = "commit" /\ gev.prev_read = gev.read) =>
        /\ Content(Visible(stab)) = gev.before
        /\ \A x, y \in Visible(stab) : x.skill_id = y.skill_id => x = y

C17_Witness ==
    /\ gev.kind = "commit"
    /\ gev.prev_read = gev.read
    /\ gev.before # {}
    /\ \E x \in Visible(stab) : x.gen = gev.gen

\* C27: every evaluation committed by create_evaluation has an
\* evaluator_relationship among self, manager, peer and direct_report.
C27_RelationshipKinds ==
    \A i \in DOMAIN etab : etab[i].evaluator_relationship \in Relationships

-----------------------------------------------------------------------------
(* SpecStats: aggregate_competency_scores applied to longer sequences of   *)
(* evaluations taken from a few ratings                                    *)

Rating(rel, status, comp_scores) ==
    [evaluator_relationship |-> rel, status |-> status,
     competency_scores |-> comp_scores]

Rated ==
    {Rating("self", "submitted", <<CompetencyScore("s1", 9)>>),
     Rating("manager", "submitted", <<CompetencyScore("s1", 8)>>),
     Rating("peer", "submitted", <<CompetencyScore("s1", 7)>>),
     Rating("direct_report", "submitted",
            <<CompetencyScore("s1", 6), CompetencyScore("s2", 10)>>),
     Rating("peer", "pending", <<CompetencyScore("s2", 0)>>)}

StatsInit ==
    /\ now = 0
    /\ evals \in SeqsUpTo(Rated, MaxRated)
    /\ verdict = NoVerdict
    /\ aggregated = NoAggregate
    /\ BreakerIdle
    /\ ClientIdle
    /\ AcceptIdle
    /\ IngestIdle
    /\ AggIdle
    /\ CycleIdle

StatsNext == AggregateScores

SpecStats == StatsInit /\ [][StatsNext]_vars

\* The scores given to a skill by the submitted evaluations of any kind
AllScoresOf(k) == UNION {ScoresOf(k, rel) : rel \in Relationships}

RECURSIVE SumOver(_)
\* The sum of the scores at the places S of evals
SumOver(S) ==
    IF S = {} THEN 0
    ELSE LET p == CHOOSE q \in S : TRUE
         IN evals[p[1]].competency_scores[p[2]].score + SumOver(S \ {p})

\* The value confidence has for n samples, in tenths
StepOf(n) ==
    CASE n >= 5 -> 9
      [] n \in 3 .. 4 -> 7
      [] n \in 1 .. 2 -> 5
      [] n = 0 -> 0

\* C21: the confidence of every skill of the aggregate is the step function
\* of the number n of scores the submitted evaluations give the skill: 0.9
\* for n >= 5, 0.7 for n of 3 or 4, 0.5 for n of 1 or 2, and 0.0 for n = 0.
C21_ConfidenceSteps ==
    /\ aggregated.raised = "none" =>
          \A k \in DOMAIN aggregated.value :
              aggregated.value[k].confidence
                = StepOf(Cardinality(AllScoresOf(k)))
    /\ \A n \in 0 .. 2 * MaxRated : Confidence(n) = StepOf(n)

\* Five scores of one skill and two of another
C21_Witness ==
    /\ aggregated.raised = "none"
    /\ DOMAIN aggregated.value = {"s1", "s2"}
    /\ Cardinality(AllScoresOf("s1")) = 5
    /\ aggregated.value["s1"].confidence = 9
    /\ Cardinality(AllScoresOf("s2")) = 2
    /\ aggregated.value["s2"].confidence = 5

\* a / b as a fraction equals the mean of the scores at the places S
IsMeanOf(avg, S) == avg.n > 0 /\ avg.sum * Cardinality(S) = SumOver(S) * avg.n

\* C22: for every skill of the aggregate and every relationship kind, the
\* count is the number of scores of that kind in the submitted evaluations,
\* the average of the kind is the mean of those scores, absent when there
\* are none, and the overall average is the mean of all the scores counted.
C22_CountsAndMeans ==
    aggregated.raised = "none" =>
        \A k \in DOMAIN aggregated.value :
            LET a == aggregated.value[k]
                n == [rel \in Relationships |-> Cardinality(ScoresOf(k, rel))]
                Kind(count, avg, rel) ==
                    /\ count = n[rel]
                    /\ IF n[rel] = 0 THEN avg.n = 0
                       ELSE IsMeanOf(avg, ScoresOf(k, rel))
            IN /\ Kind(a.n_self, a.self_avg, "self")
               /\ Kind(a.n_peer, a.peer_avg, "peer")
               /\ Kind(a.n_manager, a.manager_avg, "manager")
               /\ Kind(a.n_direct_report, a.direct_report_avg, "direct_report")
               /\ IsMeanOf(a.overall_avg, AllScoresOf(k))

\* self 9, manager 8, peers 7 and 7: overall 7.75, no direct report average
C22_Witness ==
    /\ aggregated.raised = "none"
    /\ Len(evals) = 4
    /\ DOMAIN aggregated.value = {"s1"}
    /\ LET a == aggregated.value["s1"]
       IN /\ a.n_self = 1 /\ a.self_avg = [sum |-> 9, n |-> 1]
          /\ a.n_manager = 1 /\ a.manager_avg = [sum |-> 8, n |-> 1]
          /\ a.n_peer = 2 /\ a.peer_avg.sum = 7 * a.peer_avg.n
          /\ a.n_direct_report = 0 /\ a.direct_report_avg.n = 0
          /\ a.overall_avg.sum * 100 = 775 * a.overall_avg.n

-----------------------------------------------------------------------------
(* SpecCycle: EvaluationCycleService.create_cycle and update_cycle on one  *)
(* evaluation cycle                                                        *)

Dates == 1 .. MaxDate

\* The status strings a request can carry (max_length=30, not validated by
\* the schema)
StatusInputs == {"draft", "active", "closed", "archived"}

valid_statuses == {"draft", "active", "closed"}

\* EvaluationCycleCreate: start_date, end_date and status are required
CycleCreates == [start_date : Dates, end_date : Dates, status : StatusInputs]

CycleFields == {"start_date", "end_date", "status"}

\* EvaluationCycleUpdate: every field is optional; set holds the names of
\* the fields the request carries (model_dump(exclude_unset=True)), and a
\* field it does not carry has its first value.
CycleUpdates ==
    {data \in [set : SUBSET CycleFields, start_date : Dates, end_date : Dates,
               status : StatusInputs] :
        /\ "start_date" \notin data.set => data.start_date = 1
        /\ "end_date" \notin data.set => data.end_date = 1
        /\ "status" \notin data.set => data.status = "draft"}

\* update_dict.get(key, current)
Get(data, key, current) == IF key \in data.set THEN data[key] ELSE current

CycleInit ==
    /\ now = 0
    /\ cycle = NoCycle
    /\ cyev = NoCycleEvent
    /\ BreakerIdle
    /\ ClientIdle
    /\ AcceptIdle
    /\ IngestIdle
    /\ EvalIdle
    /\ AggIdle

\* create_cycle: the dates and the status are validated, the row is
\* committed.
CreateCycle(data) ==
    /\ cycle = NoCycle
    /\ LET outcome ==
             IF data.end_date < data.start_date THEN "ValidationError"
             ELSE IF data.status \notin valid_statuses THEN "ValidationError"
             ELSE "created"
       IN /\ cycle' = IF outcome = "created"
                      THEN [status |-> data.status,
                            start_date |-> data.start_date,
                            end_date |-> data.end_date]
                      ELSE cycle
          /\ cyev' = [kind |-> "create", pre |-> cycle, data |-> data,
                      outcome |-> outcome]
    /\ UNCHANGED <<now, bvars, cvars, avars, ivars, evars, gvars>>

\* update_cycle: NotFoundError without a row; the dates (those given, else
\* those of the row) and the status, if given, are validated; every field
\* given is set on the row and the row is committed.
UpdateCycle(data) ==
    /\ LET start_date == Get(data, "start_date", cycle.start_date)
           end_date == Get(data, "end_date", cycle.end_date)
           outcome ==
             IF cycle = NoCycle THEN "NotFoundError"
             ELSE IF end_date < start_date THEN "ValidationError"
             ELSE IF "status" \in data.set /\ data.status \notin valid_statuses
                  THEN "ValidationError"
             ELSE "updated"
       IN /\ cycle' = IF outcome = "updated"
                      THEN [status |-> Get(data, "status", cycle.status),
                            start_date |-> start_date,
                            end_date |-> end_date]
                      ELSE cycle
          /\ cyev' = [kind |-> "update", pre |-> cycle, data |-> data,
                      outcome |-> outcome]
    /\ UNCHANGED <<now, bvars, cvars, avars, ivars, evars, gvars>>

CycleNext ==
    \/ \E data \in CycleCreates : CreateCycle(data)
    \/ \E data \in CycleUpdates : UpdateCycle(data)

SpecCycle == CycleInit /\ [][CycleNext]_vars

\* C26: update_cycle applied to a cycle whose status is closed leaves its
\* dates and its status as they were.
C26_ClosedCycleFrozen ==
    (cyev.kind = "update" /\ cyev.pre.status = "closed") =>
        /\ cycle.status = cyev.pre.status
        /\ cycle.start_date = cyev.pre.start_date
        /\ cycle.end_date = cyev.pre.end_date

====
